---- MODULE Spec2Model ----
(***************************************************************************)
(* A model of pyQADR: the DC-net based anonymous data reporting protocol.  *)
(*   qadr/protocol.py        QADRProtocol (reservation loop, data round)   *)
(*   qadr/participant.py     Participant (vectors, masking, verification)  *)
(*   qadr/service_provider.py ServiceProvider.aggregate_vectors            *)
(*   crypto/qs_prf.py        qs_prf (pad expansion)                        *)
(*   simulators/qkd_network_simulator.py QKDNetwork (pairwise keys)        *)
(* Bytes are natural numbers 0..ByteMax, byte strings and numpy vectors    *)
(* are sequences (python index k is TLA+ index k+1).                       *)
(***************************************************************************)
EXTENDS Integers, Sequences, FiniteSets, TLC

\* ------------------------------------------------------------------ bounds
\* largest participant count n the model explores
MaxN == 3
\* largest slot count m = ceil(n * gamma) the model explores
MaxM == 3
\* largest value of one random byte (os.urandom draws from 0..ByteMax)
ByteMax == 2
\* vector length (in bytes) of the stand-alone masking experiment
MaxVecLen == 2
\* ids handed to the key store on its own are drawn from 0..MaxId
MaxId == 3
\* the construction outcomes (all keys and messages) a protocol run starts
\* from are numbered 0..MaxSeed
MaxSeed == 1

\* ------------------------------------------------- constants (qadr.constants)
PSEUDONYM_LENGTH_BYTES == 1
DEFAULT_MESSAGE_LENGTH_BYTES == 2
QKD_KEY_LENGTH_BYTES == 1

\* ------------------------------------------------------------------ values
Bytes == 0..ByteMax

\* os.urandom(len): every byte string of that length
RECURSIVE urandom(_)
urandom(len) ==
    IF len = 0 THEN {<< >>}
    ELSE {Append(s, b) : s \in urandom(len - 1), b \in Bytes}

\* python None for chosen_slot_index, pseudonym and final_data_vector
NoSlot == -1
NoBytes == << >>

PENDING == "PENDING"
SUCCESSFUL == "SUCCESSFUL"
COLLIDED == "COLLIDED"
ReservationStatus == {PENDING, SUCCESSFUL, COLLIDED}

Min(a, b) == IF a < b THEN a ELSE b
Max(a, b) == IF a < b THEN b ELSE a

\* np.bitwise_xor on two uint8 values
RECURSIVE bitwise_xor(_, _)
bitwise_xor(a, b) ==
    IF a = 0 THEN b
    ELSE IF b = 0 THEN a
    ELSE (((a % 2) + (b % 2)) % 2) + 2 * bitwise_xor(a \div 2, b \div 2)

\* np.bitwise_xor on two vectors of the same shape
xor_vectors(v, w) == [k \in 1..Len(v) |-> bitwise_xor(v[k], w[k])]

\* python slice seq[start:end] for 0 <= start, clipped to the sequence
Slice(s, start, end) ==
    LET lo == Min(start, Len(s))
        hi == Max(lo, Min(end, Len(s)))
    IN [k \in 1..(hi - lo) |-> s[lo + k]]

\* np.zeros(len, dtype=uint8)
zeros(len) == [k \in 1..len |-> 0]

\* ------------------------------------------------ crypto/qs_prf.py: qs_prf
\* the number a byte string spells (base ByteMax + 1), the input of the hash
RECURSIVE KeyNumber(_)
KeyNumber(key) ==
    IF key = << >> THEN 0
    ELSE key[1] + (ByteMax + 1) * KeyNumber(Tail(key))

\* hashlib.shake_256: byte k (from 0) of the output stream of a key; a fixed
\* function of the key and the position, so digest(L) is a prefix of digest(L+1)
shake_256(key, k) == ((KeyNumber(key) + 1) * (k + 1) + k) % (ByteMax + 1)

qs_prf_error(key, output_length_bytes) ==
    IF Len(key) # QKD_KEY_LENGTH_BYTES THEN "ValueError" ELSE "none"

qs_prf(key, output_length_bytes) ==
    [k \in 1..output_length_bytes |-> shake_256(key, k - 1)]

\* ------------------------- simulators/qkd_network_simulator.py: QKDNetwork
\* variant: only the empty list is rejected
QKDNetwork_init_error_empty_only(participant_ids) ==
    IF participant_ids = << >> THEN "ValueError" ELSE "none"

\* QKDNetwork.__init__: the id list is rejected when empty or with duplicates
QKDNetwork_init_error(participant_ids) ==
    IF participant_ids = << >>
       \/ Cardinality({participant_ids[k] : k \in 1..Len(participant_ids)})
            # Len(participant_ids)
    THEN "ValueError" ELSE "none"

\* variant: a key is stored for both orders of a pair
KeyTuples_both_orders(ids) == {t \in ids \X ids : t[1] # t[2]}

\* the key tuples _establish_all_keys fills: (ids[i], ids[j]) for i < j of
\* the sorted id list
KeyTuples(ids) == {<<a, b>> : a \in ids, b \in ids} \ {t \in ids \X ids : t[1] >= t[2]}

\* _establish_all_keys: one fresh random key per tuple
establish_all_keys(ids) == [KeyTuples(ids) -> urandom(QKD_KEY_LENGTH_BYTES)]

\* variant: the test p_id1 == p_id2 is missing
get_key_error_no_self_test(_keys, p_id1, p_id2) ==
    IF <<Min(p_id1, p_id2), Max(p_id1, p_id2)>> \notin DOMAIN _keys THEN "KeyError"
    ELSE "none"

get_key_error(_keys, p_id1, p_id2) ==
    IF p_id1 = p_id2 THEN "ValueError"
    ELSE IF <<Min(p_id1, p_id2), Max(p_id1, p_id2)>> \notin DOMAIN _keys THEN "KeyError"
    ELSE "none"

get_key(_keys, p_id1, p_id2) ==
    _keys[<<Min(p_id1, p_id2), Max(p_id1, p_id2)>>]

\* ----------------------------------------- qadr/participant.py: Participant
\* variant: pads only for the participants with a higher id
other_participant_ids_higher(id, all_participant_ids) ==
    SelectSeq(all_participant_ids, LAMBDA pid : pid > id)

\* Participant.__init__: other_participant_ids, in the order of the id list
other_participant_ids(id, all_participant_ids) ==
    SelectSeq(all_participant_ids, LAMBDA pid : pid # id)

\* create_vector: the error it raises, "none" when it returns a vector.
\* vector[start:end] = content needs the (clipped) slice to have the length of
\* the content, or the content to have length 1 (numpy broadcasts it)
create_vector_error(chosen_slot_index, content, vector_length, slot_len_bytes) ==
    LET total == vector_length * slot_len_bytes
        start_index == chosen_slot_index * slot_len_bytes
        end_index == start_index + Len(content)
        lo == Min(start_index, total)
        hi == Max(lo, Min(end_index, total))
    IN IF chosen_slot_index = NoSlot THEN "RuntimeError"
       ELSE IF hi - lo # Len(content) /\ Len(content) # 1 THEN "ValueError"
       ELSE "none"

\* variant: the content is written one slot too far (slots counted from 1)
create_vector_next_slot(chosen_slot_index, content, vector_length, slot_len_bytes) ==
    LET total == vector_length * slot_len_bytes
        start_index == (chosen_slot_index + 1) * slot_len_bytes
        end_index == start_index + Len(content)
        lo == Min(start_index, total)
        hi == Max(lo, Min(end_index, total))
    IN [k \in 1..total |->
          IF k > lo /\ k <= hi
          THEN (IF Len(content) = 1 THEN content[1] ELSE content[k - lo])
          ELSE 0]

create_vector(chosen_slot_index, content, vector_length, slot_len_bytes) ==
    LET total == vector_length * slot_len_bytes
        start_index == chosen_slot_index * slot_len_bytes
        end_index == start_index + Len(content)
        lo == Min(start_index, total)
        hi == Max(lo, Min(end_index, total))
    IN [k \in 1..total |->
          IF k > lo /\ k <= hi
          THEN (IF Len(content) = 1 THEN content[1] ELSE content[k - lo])
          ELSE 0]

\* mask_vector: the error get_key or qs_prf raises in it, "none" otherwise
mask_vector_error(id, others, _keys, vector) ==
    IF \E k \in 1..Len(others) : get_key_error(_keys, id, others[k]) # "none"
    THEN "get_key error"
    ELSE IF \E k \in 1..Len(others) :
               qs_prf_error(get_key(_keys, id, others[k]), Len(vector)) # "none"
    THEN "ValueError"
    ELSE "none"

\* mask_vector: XOR the pad of every other participant into a copy
RECURSIVE mask_vector(_, _, _, _)
mask_vector(id, others, _keys, vector) ==
    IF others = << >> THEN vector
    ELSE LET shared_key == get_key(_keys, id, Head(others))
             pad_array == qs_prf(shared_key, Len(vector))
         IN mask_vector(id, Tail(others), _keys, xor_vectors(vector, pad_array))

\* variant: the region of slot 0 is read whatever the chosen slot
verify_reservation_slot0(status, chosen_slot_index, pseudonym_, public_vector_, slot_len_bytes) ==
    IF chosen_slot_index = NoSlot \/ pseudonym_ = NoBytes THEN status
    ELSE LET slot_content == Slice(public_vector_, 0, PSEUDONYM_LENGTH_BYTES)
         IN IF slot_content = pseudonym_ THEN SUCCESSFUL ELSE COLLIDED

\* verify_reservation: the status it leaves the participant with
verify_reservation(status, chosen_slot_index, pseudonym_, public_vector_, slot_len_bytes) ==
    IF chosen_slot_index = NoSlot \/ pseudonym_ = NoBytes THEN status
    ELSE LET start_index == chosen_slot_index * slot_len_bytes
             end_index == start_index + PSEUDONYM_LENGTH_BYTES
             slot_content == Slice(public_vector_, start_index, end_index)
         IN IF slot_content = pseudonym_ THEN SUCCESSFUL ELSE COLLIDED

\* --------------------------- qadr/service_provider.py: ServiceProvider
aggregate_vectors_error(vectors) ==
    IF vectors = << >> THEN "ValueError: empty"
    ELSE IF \E k \in 1..Len(vectors) : Len(vectors[k]) # Len(vectors[1])
         THEN "ValueError: shape"
    ELSE "none"

\* variant: the fold stops after the second vector
reduce_xor_first_two(acc, rest) ==
    IF rest = << >> THEN acc ELSE xor_vectors(acc, Head(rest))

\* functools.reduce(np.bitwise_xor, vectors)
RECURSIVE reduce_xor(_, _)
reduce_xor(acc, rest) ==
    IF rest = << >> THEN acc
    ELSE reduce_xor(xor_vectors(acc, Head(rest)), Tail(rest))

\* variant: the fold starts from zeros and runs over vectors[1:]
aggregate_vectors_skip_first(vectors) ==
    reduce_xor(zeros(Len(Head(vectors))), Tail(vectors))

aggregate_vectors(vectors) == reduce_xor(Head(vectors), Tail(vectors))

\* ------------------------------------------------------------------- state
VARIABLES
    num_participants,     \* QADRProtocol.num_participants (n)
    num_slots,            \* QADRProtocol.num_slots (m)
    keys,                 \* QKDNetwork._keys
    message,              \* Participant.message, per id
    reservation_status,   \* Participant.reservation_status, per id
    pseudonym,            \* Participant.pseudonym, per id (NoBytes = None)
    chosen_slot_index,    \* Participant.chosen_slot_index, per id (NoSlot = None)
    reservation_rounds,   \* QADRProtocol.reservation_rounds
    final_data_vector,    \* QADRProtocol.final_data_vector (NoBytes = None)
    round_num,            \* loop variable of run_slot_reservation (0 before the loop)
    pending_participants,     \* local list of run_slot_reservation (ids)
    successful_participants,  \* local list of run_slot_reservation (ids)
    occupied_slots,           \* local set of run_slot_reservation
    newly_occupied_slots_this_round, \* local set of run_slot_reservation
    masked_vectors,       \* the batch handed to aggregate_vectors
    public_vector,        \* the aggregate of the last reservation round
    printed,              \* the outcome messages printed so far
    returned,             \* what run_slot_reservation returned ("none" while running)
    pc,                   \* position of the run
    vectors_in,           \* unmasked vectors of the stand-alone masking experiment
    qkd_participant_ids,  \* QKDNetwork.participant_ids (the sorted id list)
    call,                 \* the component operation called last, with its arguments
    outcome               \* what that call returned or raised

vars == <<num_participants, num_slots, keys, message, reservation_status,
          pseudonym, chosen_slot_index, reservation_rounds, final_data_vector,
          round_num, pending_participants, successful_participants,
          occupied_slots, newly_occupied_slots_this_round, masked_vectors,
          public_vector, printed, returned, pc, vectors_in,
                   qkd_participant_ids, call, outcome>>

\* QADRProtocol.participant_ids = list(range(num_participants))
participant_ids(n) == [k \in 1..n |-> k - 1]
Ids == 0..(num_participants - 1)

\* ids of a list of participants, as a set
SeqSet(s) == {s[k] : k \in 1..Len(s)}

\* the sub-list of self.participants (id order) picked by a status test
RECURSIVE FilterIds(_, _)
FilterIds(ids, keep) ==
    IF ids = << >> THEN << >>
    ELSE IF Head(ids) \in keep THEN <<Head(ids)>> \o FilterIds(Tail(ids), keep)
    ELSE FilterIds(Tail(ids), keep)

\* The os.urandom calls of the construction are made in a fixed order: one
\* per key tuple (_establish_all_keys, tuples in lexicographic order), then
\* one per participant (Participant.__init__, id order).  A protocol run
\* starts from one of MaxSeed + 1 outcomes of the whole construction; in
\* outcome `seed` call number k (from 0) returns this byte string.
setup_urandom(seed, k, len) ==
    [j \in 1..len |-> ((k + 1) * (seed + 1) + (j - 1)) % (ByteMax + 1)]

\* number of the key tuple t in the order _establish_all_keys visits them
TupleRank(ids, t) ==
    Cardinality({u \in KeyTuples(ids) :
                    u[1] < t[1] \/ (u[1] = t[1] /\ u[2] < t[2])})

\* QADRProtocol.__init__ followed by the first lines of run_slot_reservation
Init ==
    /\ num_participants \in 1..MaxN
    /\ num_slots \in 1..MaxM
    /\ \E seed \in 0..MaxSeed :
         LET ids == 0..(num_participants - 1)
         IN /\ keys = [t \in KeyTuples(ids) |->
                         setup_urandom(seed, TupleRank(ids, t), QKD_KEY_LENGTH_BYTES)]
            /\ message = [i \in ids |->
                            setup_urandom(seed, Cardinality(KeyTuples(ids)) + i,
                                          DEFAULT_MESSAGE_LENGTH_BYTES)]
    /\ reservation_status = [i \in 0..(num_participants - 1) |-> PENDING]
    /\ pseudonym = [i \in 0..(num_participants - 1) |-> NoBytes]
    /\ chosen_slot_index = [i \in 0..(num_participants - 1) |-> NoSlot]
    /\ reservation_rounds = 0
    /\ final_data_vector = NoBytes
    /\ round_num = 0
    /\ pending_participants = participant_ids(num_participants)
    /\ successful_participants = << >>
    /\ occupied_slots = {}
    /\ newly_occupied_slots_this_round = {}
    /\ masked_vectors = << >>
    /\ public_vector = NoBytes
    /\ printed = {}
    /\ returned = "none"
    /\ pc = "loop"
    /\ vectors_in = << >>
    /\ qkd_participant_ids = participant_ids(num_participants)
    /\ call = << >>
    /\ outcome = << >>

\* variant: one round more than twice the participants
max_rounds_plus_one == num_participants * 2 + 1

max_rounds == num_participants * 2

\* variant: the occupied set is not consulted
available_slots_all == 0..(num_slots - 1)

\* variant: the last slot index is left out (range(num_slots - 1))
available_slots_short == {i \in 0..(num_slots - 2) : i \notin occupied_slots}

\* available_slots of a round, as the list the code builds
available_slots == {i \in 0..(num_slots - 1) : i \notin occupied_slots}

\* the participants whose status is not Successful
NotSuccessful == {i \in Ids : reservation_status[i] # SUCCESSFUL}

\* variant: every participant takes the else branch
RechoosingAll == Ids

\* the participants that take the else branch of the preparation loop: they
\* are reset to Pending and choose a slot
Rechoosing == {i \in Ids : reservation_status[i] # SUCCESSFUL}

\* variant: the pads of the participants that are already Successful are
\* left out
submitted_vector_pending_only(i, slot, content, vector_length, slot_len_bytes) ==
    mask_vector(i,
                SelectSeq(other_participant_ids(i, participant_ids(num_participants)),
                          LAMBDA pid : reservation_status[pid] # SUCCESSFUL),
                keys, create_vector(slot, content, vector_length, slot_len_bytes))

\* the masked vector participant i submits for content at its slot
submitted_vector(i, slot, content, vector_length, slot_len_bytes) ==
    mask_vector(i, other_participant_ids(i, participant_ids(num_participants)), keys,
                create_vector(slot, content, vector_length, slot_len_bytes))

\* the exception that ends the preparation of participant i's vector, "none"
\* when create_vector and mask_vector both return
submission_error(i, slot, content, vector_length, slot_len_bytes) ==
    IF create_vector_error(slot, content, vector_length, slot_len_bytes) # "none"
    THEN create_vector_error(slot, content, vector_length, slot_len_bytes)
    ELSE mask_vector_error(i, other_participant_ids(i, participant_ids(num_participants)),
                           keys, zeros(vector_length * slot_len_bytes))

\* run_slot_reservation, one loop iteration from the loop head to the
\* aggregation: count the round, test the pending list and the available
\* slots, let every participant draw a pseudonym (and a slot unless it is
\* Successful), build, mask and aggregate the vectors
RoundSubmit ==
    /\ pc = "loop"
    /\ round_num < max_rounds
    /\ round_num' = round_num + 1
    /\ reservation_rounds' = reservation_rounds + 1
    /\ IF pending_participants = << >>
       THEN \* break, then the lines after the loop
            /\ printed' = printed \cup {"failed_after_max_rounds"}
            /\ returned' = "False"
            /\ pc' = "failed"
            /\ UNCHANGED <<reservation_status, pseudonym, chosen_slot_index,
                           masked_vectors, public_vector>>
       ELSE IF available_slots = {}
       THEN /\ printed' = printed \cup {"no_available_slots"}
            /\ returned' = "False"
            /\ pc' = "failed"
            /\ UNCHANGED <<reservation_status, pseudonym, chosen_slot_index,
                           masked_vectors, public_vector>>
       ELSE \E new_pseudonym \in [Ids -> urandom(PSEUDONYM_LENGTH_BYTES)],
               chosen_slot \in [Rechoosing -> available_slots] :
            LET slot == [i \in Ids |->
                           IF i \in Rechoosing
                           THEN chosen_slot[i] ELSE chosen_slot_index[i]]
                batch == [k \in 1..num_participants |->
                           submitted_vector(k - 1, slot[k - 1], new_pseudonym[k - 1],
                                            num_slots, PSEUDONYM_LENGTH_BYTES)]
                failing == {i \in Ids :
                              submission_error(i, slot[i], new_pseudonym[i], num_slots,
                                               PSEUDONYM_LENGTH_BYTES) # "none"}
                \* the participants the preparation loop reaches
                reached == {i \in Ids : \A f \in failing : i <= f}
            IN /\ IF failing # {}
                  THEN \* an exception leaves run_slot_reservation and run
                       /\ reservation_status' =
                             [i \in Ids |-> IF i \in Rechoosing \cap reached
                                            THEN PENDING ELSE reservation_status[i]]
                       /\ pseudonym' =
                             [i \in Ids |-> IF i \in reached THEN new_pseudonym[i]
                                            ELSE pseudonym[i]]
                       /\ chosen_slot_index' =
                             [i \in Ids |-> IF i \in reached THEN slot[i]
                                            ELSE chosen_slot_index[i]]
                       /\ pc' = "raised"
                       /\ UNCHANGED <<masked_vectors, public_vector>>
                  ELSE /\ reservation_status' =
                             [i \in Ids |-> IF i \in Rechoosing
                                            THEN PENDING ELSE reservation_status[i]]
                       /\ pseudonym' = new_pseudonym
                       /\ chosen_slot_index' = slot
                       /\ masked_vectors' = batch
                       /\ public_vector' = aggregate_vectors(masked_vectors')
                       /\ pc' = "verify"
               /\ UNCHANGED <<printed, returned>>
    /\ UNCHANGED <<num_participants, num_slots, keys, message, final_data_vector,
                   pending_participants, successful_participants, occupied_slots,
                   newly_occupied_slots_this_round, vectors_in,
                   qkd_participant_ids, call, outcome>>

\* variant: the list is sorted with the highest id first
RECURSIVE SortById_descending(_)
SortById_descending(ids) ==
    IF ids = {} THEN << >>
    ELSE LET most == CHOOSE a \in ids : \A b \in ids : a >= b
         IN <<most>> \o SortById_descending(ids \ {most})

\* list.sort(key=lambda p: p.id) on a list of distinct ids
RECURSIVE SortById(_)
SortById(ids) ==
    IF ids = {} THEN << >>
    ELSE LET least == CHOOSE a \in ids : \A b \in ids : a <= b
         IN <<least>> \o SortById(ids \ {least})

\* variant: enumerate counting from 1
IndexOfFromOne(list, id) == CHOOSE k \in 1..Len(list) : list[k] = id

\* position (from 0) of an id in a list that holds it
IndexOf(list, id) == (CHOOSE k \in 1..Len(list) : list[k] = id) - 1

\* run_slot_reservation, the rest of the iteration up to the update of
\* occupied_slots: the participants that are not Successful verify, the lists
\* and the slot set of the round are rebuilt, the conflict test is made
RoundVerify ==
    /\ pc = "verify"
    /\ LET status == [i \in Ids |->
                        IF reservation_status[i] # SUCCESSFUL
                        THEN verify_reservation(reservation_status[i], chosen_slot_index[i],
                                                pseudonym[i], public_vector,
                                                PSEUDONYM_LENGTH_BYTES)
                        ELSE reservation_status[i]]
           winners == {i \in Ids : status[i] = SUCCESSFUL}
           newly == {chosen_slot_index[i] : i \in {w \in winners : chosen_slot_index[w] # NoSlot}}
       IN /\ reservation_status' = status
          /\ successful_participants' = FilterIds(participant_ids(num_participants), winners)
          /\ pending_participants' = FilterIds(participant_ids(num_participants), Ids \ winners)
          /\ newly_occupied_slots_this_round' = newly
          /\ printed' = IF newly \cap occupied_slots # {}
                        THEN printed \cup {"critical_slot_collision"} ELSE printed
          /\ occupied_slots' = occupied_slots \cup newly
    /\ pc' = "check"
    /\ UNCHANGED <<num_participants, num_slots, keys, message, pseudonym,
                   chosen_slot_index, reservation_rounds, final_data_vector, round_num,
                   masked_vectors, public_vector, returned, vectors_in,
                   qkd_participant_ids, call, outcome>>

\* variant: one participant short of n is enough
reservation_complete_one_short == Len(successful_participants) + 1 >= num_participants

\* variant: the test is `if successful_participants:`
reservation_complete_some_successful == successful_participants # << >>

\* the test `len(successful_participants) == self.num_participants`
reservation_complete == Len(successful_participants) = num_participants

\* run_slot_reservation, the end of the iteration: with everybody Successful
\* the slots are compacted and the call returns True, else the loop goes on
RoundEnd ==
    /\ pc = "check"
    /\ IF reservation_complete
       THEN LET sorted == SortById(SeqSet(successful_participants))
            IN /\ successful_participants' = sorted
               /\ chosen_slot_index' =
                     [i \in Ids |-> IF i \in SeqSet(sorted) THEN IndexOf(sorted, i)
                                    ELSE chosen_slot_index[i]]
               /\ printed' = printed \cup {"reservation_successful"}
               /\ returned' = "True"
               /\ pc' = "data"
       ELSE /\ pc' = "loop"
            /\ UNCHANGED <<successful_participants, chosen_slot_index, printed, returned>>
    /\ UNCHANGED <<num_participants, num_slots, keys, message, reservation_status,
                   pseudonym, reservation_rounds, final_data_vector, round_num,
                   pending_participants, occupied_slots, newly_occupied_slots_this_round,
                   masked_vectors, public_vector, vectors_in,
                   qkd_participant_ids, call, outcome>>

\* run_slot_reservation, the lines after the loop when range(1, max_rounds + 1)
\* is used up
LoopExhausted ==
    /\ pc = "loop"
    /\ round_num = max_rounds
    /\ printed' = printed \cup {"failed_after_max_rounds"}
    /\ returned' = "False"
    /\ pc' = "failed"
    /\ UNCHANGED <<num_participants, num_slots, keys, message, reservation_status,
                   pseudonym, chosen_slot_index, reservation_rounds, final_data_vector,
                   round_num, pending_participants, successful_participants,
                   occupied_slots, newly_occupied_slots_this_round, masked_vectors,
                   public_vector, vectors_in,
                   qkd_participant_ids, call, outcome>>

\* run: run_data_submission after run_slot_reservation returned True
DataSubmission ==
    /\ pc = "data"
    /\ IF NotSuccessful # {}
       THEN /\ printed' = printed \cup {"cannot_run_data_submission"}
            /\ UNCHANGED <<masked_vectors, final_data_vector>>
            /\ pc' = "done"
       ELSE IF \E i \in Ids :
                  submission_error(i, chosen_slot_index[i], message[i], num_participants,
                                   DEFAULT_MESSAGE_LENGTH_BYTES) # "none"
       THEN \* an exception leaves run_data_submission and run
            /\ pc' = "raised"
            /\ UNCHANGED <<masked_vectors, final_data_vector, printed>>
       ELSE LET batch == [k \in 1..num_participants |->
                            submitted_vector(k - 1, chosen_slot_index[k - 1], message[k - 1],
                                             num_participants,
                                             DEFAULT_MESSAGE_LENGTH_BYTES)]
            IN /\ masked_vectors' = batch
               /\ final_data_vector' = aggregate_vectors(masked_vectors')
               /\ printed' = printed \cup {"data_submission_complete"}
               /\ pc' = "done"
    /\ UNCHANGED <<num_participants, num_slots, keys, message, reservation_status,
                   pseudonym, chosen_slot_index, reservation_rounds, round_num,
                   pending_participants, successful_participants, occupied_slots,
                   newly_occupied_slots_this_round, public_vector, returned, vectors_in,
                   qkd_participant_ids, call, outcome>>

\* run: the value it hands to its caller, given what run_slot_reservation
\* returned; neither branch has a return statement
run_result(reservation_result) == "None"

Next == RoundSubmit \/ RoundVerify \/ RoundEnd \/ LoopExhausted \/ DataSubmission

Spec == Init /\ [][Next]_vars

\* ------------------------------------------- the masking experiment
\* n participants of one key store each mask an arbitrary vector of one
\* common length, and the service provider aggregates the masked vectors
MaskInit ==
    /\ num_participants \in 1..MaxN
    /\ num_slots = 1
    /\ keys \in establish_all_keys(0..(num_participants - 1))
    /\ \E len \in 1..MaxVecLen :
          vectors_in \in [1..num_participants -> urandom(len)]
    /\ message = [i \in 0..(num_participants - 1) |-> NoBytes]
    /\ reservation_status = [i \in 0..(num_participants - 1) |-> PENDING]
    /\ pseudonym = [i \in 0..(num_participants - 1) |-> NoBytes]
    /\ chosen_slot_index = [i \in 0..(num_participants - 1) |-> NoSlot]
    /\ reservation_rounds = 0
    /\ final_data_vector = NoBytes
    /\ round_num = 0
    /\ pending_participants = participant_ids(num_participants)
    /\ successful_participants = << >>
    /\ occupied_slots = {}
    /\ newly_occupied_slots_this_round = {}
    /\ masked_vectors = << >>
    /\ public_vector = NoBytes
    /\ printed = {}
    /\ returned = "none"
    /\ pc = "mask"
    /\ qkd_participant_ids = participant_ids(num_participants)
    /\ call = << >>
    /\ outcome = << >>

\* every participant calls mask_vector on its vector
MaskAll ==
    /\ pc = "mask"
    /\ masked_vectors' =
          [k \in 1..num_participants |->
             mask_vector(k - 1,
                         other_participant_ids(k - 1, participant_ids(num_participants)),
                         keys, vectors_in[k])]
    /\ pc' = "aggregate"
    /\ UNCHANGED <<num_participants, num_slots, keys, message, reservation_status,
                   pseudonym, chosen_slot_index, reservation_rounds, final_data_vector,
                   round_num, pending_participants, successful_participants,
                   occupied_slots, newly_occupied_slots_this_round, public_vector,
                   printed, returned, vectors_in,
                   qkd_participant_ids, call, outcome>>

\* the service provider calls aggregate_vectors on the masked batch
AggregateMasked ==
    /\ pc = "aggregate"
    /\ public_vector' = aggregate_vectors(masked_vectors)
    /\ pc' = "aggregated"
    /\ UNCHANGED <<num_participants, num_slots, keys, message, reservation_status,
                   pseudonym, chosen_slot_index, reservation_rounds, final_data_vector,
                   round_num, pending_participants, successful_participants,
                   occupied_slots, newly_occupied_slots_this_round, masked_vectors,
                   printed, returned, vectors_in,
                   qkd_participant_ids, call, outcome>>

MaskNext == MaskAll \/ AggregateMasked

MaskSpec == MaskInit /\ [][MaskNext]_vars

\* ------------------------------------------- the components on their own
\* no protocol object exists: the variables of a run are at rest
NoProtocolRun ==
    /\ num_participants = 0
    /\ num_slots = 0
    /\ message = << >>
    /\ reservation_status = << >>
    /\ pseudonym = << >>
    /\ chosen_slot_index = << >>
    /\ reservation_rounds = 0
    /\ final_data_vector = NoBytes
    /\ round_num = 0
    /\ pending_participants = << >>
    /\ successful_participants = << >>
    /\ occupied_slots = {}
    /\ newly_occupied_slots_this_round = {}
    /\ masked_vectors = << >>
    /\ public_vector = NoBytes
    /\ printed = {}
    /\ returned = "none"
    /\ vectors_in = << >>

run_vars == <<num_participants, num_slots, message, reservation_status,
              pseudonym, chosen_slot_index, reservation_rounds, final_data_vector,
              round_num, pending_participants, successful_participants,
              occupied_slots, newly_occupied_slots_this_round, masked_vectors,
              public_vector, printed, returned, vectors_in>>

\* the id lists a caller may hand to QKDNetwork: empty, with duplicates, in
\* any order
IdLists == UNION {[1..k -> 0..MaxId] : k \in 0..MaxN}

\* a caller is about to construct a QKDNetwork over an id list
StoreInit ==
    /\ NoProtocolRun
    /\ call \in {<<"QKDNetwork", l>> : l \in IdLists}
    /\ outcome = << >>
    /\ keys = << >>
    /\ qkd_participant_ids = << >>
    /\ pc = "construct"

\* QKDNetwork.__init__: reject the list, or sort it and establish the keys
\* (past the test the ids are distinct)
Construct ==
    /\ pc = "construct"
    /\ IF QKDNetwork_init_error(call[2]) # "none"
       THEN /\ outcome' = <<"raise", QKDNetwork_init_error(call[2])>>
            /\ pc' = "raised"
            /\ UNCHANGED <<keys, qkd_participant_ids>>
       ELSE /\ qkd_participant_ids' = SortById(SeqSet(call[2]))
            /\ keys' \in establish_all_keys(SeqSet(call[2]))
            /\ outcome' = <<"return">>
            /\ pc' = "ready"
    /\ UNCHANGED <<run_vars, call>>

\* QKDNetwork.get_key called with any two ids
GetKey ==
    /\ pc = "ready"
    /\ \E p_id1 \in 0..MaxId, p_id2 \in 0..MaxId :
          /\ call' = <<"get_key", p_id1, p_id2>>
          /\ outcome' = IF get_key_error(keys, p_id1, p_id2) # "none"
                        THEN <<"raise", get_key_error(keys, p_id1, p_id2)>>
                        ELSE <<"return", get_key(keys, p_id1, p_id2)>>
    /\ UNCHANGED <<run_vars, keys, qkd_participant_ids, pc>>

StoreNext == Construct \/ GetKey

StoreSpec == StoreInit /\ [][StoreNext]_vars

\* a caller is about to call create_vector on a participant whose chosen
\* slot is unset or any index, with content of any length up to one byte more
\* than the widest slot
VectorInit ==
    /\ NoProtocolRun
    /\ \E len \in 0..(MaxVecLen + 1) :
          call \in {<<"create_vector", slot, content, vector_length, slot_len_bytes>> :
                       slot \in {NoSlot} \cup 0..(MaxM - 1),
                       content \in urandom(len),
                       vector_length \in 1..MaxM,
                       slot_len_bytes \in 1..MaxVecLen}
    /\ outcome = << >>
    /\ keys = << >>
    /\ qkd_participant_ids = << >>
    /\ pc = "call"

\* Participant.create_vector
CreateVector ==
    /\ pc = "call"
    /\ call[1] = "create_vector"
    /\ outcome' = IF create_vector_error(call[2], call[3], call[4], call[5]) # "none"
                  THEN <<"raise", create_vector_error(call[2], call[3], call[4], call[5])>>
                  ELSE <<"return", create_vector(call[2], call[3], call[4], call[5])>>
    /\ pc' = "returned"
    /\ UNCHANGED <<run_vars, keys, qkd_participant_ids, call>>

VectorNext == CreateVector

VectorSpec == VectorInit /\ [][VectorNext]_vars

\* a caller is about to hand the service provider a batch: any list of up to
\* MaxN vectors, each of any length up to MaxVecLen
AggregateInit ==
    /\ NoProtocolRun
    /\ \E n \in 0..MaxN :
          call \in {<<"aggregate_vectors", vectors>> :
                       vectors \in [1..n -> UNION {urandom(len) : len \in 0..MaxVecLen}]}
    /\ outcome = << >>
    /\ keys = << >>
    /\ qkd_participant_ids = << >>
    /\ pc = "call"

\* ServiceProvider.aggregate_vectors
Aggregate ==
    /\ pc = "call"
    /\ call[1] = "aggregate_vectors"
    /\ outcome' = IF aggregate_vectors_error(call[2]) # "none"
                  THEN <<"raise", aggregate_vectors_error(call[2])>>
                  ELSE <<"return", aggregate_vectors(call[2])>>
    /\ pc' = "returned"
    /\ UNCHANGED <<run_vars, keys, qkd_participant_ids, call>>

AggregateNext == Aggregate

AggregateSpec == AggregateInit /\ [][AggregateNext]_vars

\* ================================================================ properties
AllSuccessful == \A i \in Ids : reservation_status[i] = SUCCESSFUL

\* the other participants whose vector of the round carries content at i's slot
CoOccupants(i) == {j \in Ids \ {i} : chosen_slot_index[j] = chosen_slot_index[i]}

\* XOR of the current pseudonyms of a set of participants
RECURSIVE XorOfPseudonyms(_)
XorOfPseudonyms(S) ==
    IF S = {} THEN zeros(PSEUDONYM_LENGTH_BYTES)
    ELSE LET j == CHOOSE x \in S : TRUE
         IN xor_vectors(pseudonym[j], XorOfPseudonyms(S \ {j}))

\* the region of a vector that belongs to a slot of the given width
SlotRegion(vector, slot, width) == Slice(vector, slot * width, slot * width + width)

\* XOR of the unmasked input vectors of the masking experiment, in list order
RECURSIVE XorOfInputs(_)
XorOfInputs(k) ==
    IF k = 1 THEN vectors_in[1]
    ELSE xor_vectors(XorOfInputs(k - 1), vectors_in[k])

\* C1 -- Cancellation law: with two or more participants, each masking its
\* vector with the pads of all the others, the aggregate of the masked
\* vectors equals the XOR of the unmasked vectors, byte for byte.
C1_Cancellation ==
    (pc = "aggregated" /\ num_participants >= 2)
        => public_vector = XorOfInputs(num_participants)

C1_Witness ==
    /\ pc = "aggregated"
    /\ num_participants = 3
    /\ \A k \in 1..num_participants : masked_vectors[k] # vectors_in[k]
    /\ vectors_in[1] # vectors_in[2]
    /\ public_vector # zeros(Len(public_vector))

\* C2 -- After a run whose reservation succeeded, the final data vector has n
\* message-width segments and segment i is the message of participant i.
C2_FinalVectorIsMessages ==
    (returned = "True" /\ pc # "data")
        => /\ pc = "done"
           /\ Len(final_data_vector) = num_participants * DEFAULT_MESSAGE_LENGTH_BYTES
           /\ \A i \in Ids :
                 SlotRegion(final_data_vector, i, DEFAULT_MESSAGE_LENGTH_BYTES) = message[i]

C2_Witness ==
    /\ pc = "done"
    /\ returned = "True"
    /\ num_participants = 3
    /\ reservation_rounds >= 2
    /\ final_data_vector # NoBytes
    /\ \A i \in Ids : \A j \in Ids \ {i} : message[i] # message[j]

\* C3 -- Slot exclusivity (as claimed): no two participants whose status is
\* Successful hold the same chosen slot index, in any state of the run.
C3_SlotExclusivity ==
    \A i \in Ids : \A j \in Ids \ {i} :
        (reservation_status[i] = SUCCESSFUL /\ reservation_status[j] = SUCCESSFUL)
            => chosen_slot_index[i] # chosen_slot_index[j]

\* C3 (amended) -- after compaction the n slot indices are pairwise
\* distinct, and a round's verification leaves two Successful participants at
\* one slot only if they already were so before it, or if both chose the
\* slot in this round and each one's pseudonym was matched falsely (the XOR
\* of the pseudonyms of the other occupants of the slot is all-zero); a
\* participant that becomes Successful never shares its slot with one that
\* was Successful before the round.
C3_ExclusiveExceptFalseMatch ==
    /\ [](pc \in {"data", "done"}
            => \A i \in Ids : \A j \in Ids \ {i} :
                  chosen_slot_index[i] # chosen_slot_index[j])
    /\ [][(pc = "verify" /\ pc' = "check")
            => \A i \in Ids : \A j \in Ids \ {i} :
                  ( /\ reservation_status'[i] = SUCCESSFUL
                    /\ reservation_status'[j] = SUCCESSFUL
                    /\ chosen_slot_index'[i] = chosen_slot_index'[j] )
                  => \/ ( /\ reservation_status[i] = SUCCESSFUL
                          /\ reservation_status[j] = SUCCESSFUL )
                     \/ ( /\ reservation_status[i] = PENDING
                          /\ reservation_status[j] = PENDING
                          /\ XorOfPseudonyms(CoOccupants(i))
                                = zeros(PSEUDONYM_LENGTH_BYTES)
                          /\ XorOfPseudonyms(CoOccupants(j))
                                = zeros(PSEUDONYM_LENGTH_BYTES) )]_vars

C3_Witness ==
    /\ pc = "check"
    /\ num_participants = 3
    /\ round_num >= 2
    /\ AllSuccessful
    /\ Cardinality(occupied_slots) = 3
    /\ \A i \in Ids : \A j \in Ids \ {i} : chosen_slot_index[i] # chosen_slot_index[j]

\* C4 (as claimed) -- participants that chose the same slot in a round with
\* pairwise distinct pseudonyms are all set to Collided by the verification.
C4_DistinctPseudonymsAllCollide ==
    [][(pc = "verify" /\ pc' = "check")
         => \A i \in Ids :
               ( /\ reservation_status[i] = PENDING
                 /\ CoOccupants(i) # {}
                 /\ \A a \in CoOccupants(i) \cup {i} :
                      \A b \in (CoOccupants(i) \cup {i}) \ {a} :
                          pseudonym[a] # pseudonym[b] )
               => reservation_status'[i] = COLLIDED]_vars

\* C4 (amended) -- a participant that chose a slot together with others is
\* set to Collided by the verification whenever the XOR of the pseudonyms of
\* the other occupants of its slot is not all-zero.
C4_NonZeroXorCollides ==
    [][(pc = "verify" /\ pc' = "check")
         => \A i \in Ids :
               ( /\ reservation_status[i] = PENDING
                 /\ CoOccupants(i) # {}
                 /\ XorOfPseudonyms(CoOccupants(i)) # zeros(PSEUDONYM_LENGTH_BYTES) )
               => reservation_status'[i] = COLLIDED]_vars

C4_Witness ==
    /\ pc = "check"
    /\ \E i \in Ids : \E j \in Ids \ {i} :
          /\ chosen_slot_index[i] = chosen_slot_index[j]
          /\ pseudonym[i] # pseudonym[j]
          /\ pseudonym[i] # zeros(PSEUDONYM_LENGTH_BYTES)
          /\ pseudonym[j] # zeros(PSEUDONYM_LENGTH_BYTES)
          /\ reservation_status[i] = COLLIDED
          /\ reservation_status[j] = COLLIDED

\* C5 -- Lone-occupant success: when a participant is the only one to submit
\* at its slot, the slot's region of the public vector is exactly its current
\* pseudonym, and after the verification its status is Successful.
C5_LoneOccupantSucceeds ==
    \A i \in Ids :
        (pc \in {"verify", "check"} /\ CoOccupants(i) = {})
            => /\ SlotRegion(public_vector, chosen_slot_index[i], PSEUDONYM_LENGTH_BYTES)
                    = pseudonym[i]
               /\ (pc = "check" => reservation_status[i] = SUCCESSFUL)

C5_Witness ==
    /\ pc = "check"
    /\ round_num = 1
    /\ \E i \in Ids :
          /\ CoOccupants(i) = {}
          /\ chosen_slot_index[i] > 0
          /\ pseudonym[i] # zeros(PSEUDONYM_LENGTH_BYTES)
          /\ reservation_status[i] = SUCCESSFUL
    /\ \E j \in Ids : reservation_status[j] = COLLIDED

\* C6 -- Successful is sticky: a Successful participant stays Successful in
\* every step, and its slot index changes in no step other than the
\* compaction made when all participants are Successful.
C6_SuccessfulIsSticky ==
    [][\A i \in Ids :
          reservation_status[i] = SUCCESSFUL
             => /\ reservation_status'[i] = SUCCESSFUL
                /\ \/ chosen_slot_index'[i] = chosen_slot_index[i]
                   \/ (pc = "check" /\ pc' = "data" /\ AllSuccessful)]_vars

C6_Witness ==
    /\ pc = "verify"
    /\ round_num >= 2
    /\ \E i \in Ids : \E j \in Ids :
          /\ reservation_status[i] = SUCCESSFUL
          /\ chosen_slot_index[i] \in occupied_slots
          /\ reservation_status[j] = PENDING

\* C7 (as claimed) -- a round that starts with fewer available slots than
\* participants that are not Successful fails at once: False is returned and
\* nobody chooses a slot or submits a vector.
C7_InsufficientSlotsFailsAtOnce ==
    [][(/\ pc = "loop"
        /\ round_num < max_rounds
        /\ Cardinality(available_slots) < Cardinality(NotSuccessful))
         => /\ pc' = "failed"
            /\ returned' = "False"
            /\ chosen_slot_index' = chosen_slot_index
            /\ masked_vectors' = masked_vectors]_vars

\* C8 (as claimed) -- once the end-of-round test finds a slot of the round in
\* the occupied set of the earlier rounds, the run aborts: no further round,
\* no reservation success, no data submission.
C8_ConflictIsFatal ==
    "critical_slot_collision" \in printed
        => /\ pc \in {"check", "failed"}
           /\ returned # "True"

\* C9 (as claimed) -- with at least as many slots as participants the
\* reservation ends, within 2n rounds, with all participants Successful.
C9_AlwaysEndsSuccessful ==
    (num_slots >= num_participants /\ returned # "none")
        => /\ returned = "True"
           /\ AllSuccessful
           /\ reservation_rounds <= 2 * num_participants

\* C9 (amended) -- with at least as many slots as participants the
\* reservation loop terminates after at most 2n rounds: either with all
\* participants Successful, or with the failure that follows round 2n;
\* it never fails for lack of available slots.  Termination: while the call
\* has not returned the round counter is within 0..2n and a step is possible
\* (a round takes three steps, and each round raises the counter).
C9_TerminatesWithinBudget ==
    num_slots >= num_participants
        => /\ reservation_rounds <= 2 * num_participants
           /\ (returned = "none"
                 => /\ pc \in {"loop", "verify", "check"}
                    /\ ENABLED Next)
           /\ (returned = "True" => AllSuccessful)
           /\ (returned = "False"
                 => /\ reservation_rounds = 2 * num_participants
                    /\ ~AllSuccessful
                    /\ "no_available_slots" \notin printed)

C9_Witness ==
    /\ num_slots >= num_participants
    /\ num_participants = 3
    /\ returned = "True"
    /\ reservation_rounds >= 2
    /\ "critical_slot_collision" \notin printed

\* C10 -- Round budget: a call of run_slot_reservation executes at most 2n
\* rounds; it returns True only at the end of a round in which all n
\* participants are Successful, and the failure after the loop is reported
\* with the round counter equal to 2n.
C10_RoundBudget ==
    /\ reservation_rounds <= 2 * num_participants
    /\ round_num = reservation_rounds
    /\ (returned = "True"
          => /\ AllSuccessful
             /\ Len(successful_participants) = num_participants)
    /\ (pc = "loop" /\ round_num = 2 * num_participants => ~AllSuccessful)
    /\ ("failed_after_max_rounds" \in printed
          => /\ returned = "False"
             /\ pc = "failed"
             /\ reservation_rounds = 2 * num_participants)

C10_Witness ==
    /\ pc = "failed"
    /\ "failed_after_max_rounds" \in printed
    /\ num_participants >= 2
    /\ num_slots >= num_participants
    /\ reservation_rounds = 2 * num_participants

\* C11 -- Phase ordering: the data-submission round runs at most once per
\* run and only after the reservation returned True with all n participants
\* Successful; a run whose reservation fails builds and aggregates no data
\* vector and leaves final_data_vector unset.
C11_PhaseOrdering ==
    /\ [](pc = "data"
            => /\ returned = "True"
               /\ AllSuccessful
               /\ final_data_vector = NoBytes)
    /\ []((final_data_vector # NoBytes \/ "data_submission_complete" \in printed)
            => /\ pc = "done"
               /\ returned = "True"
               /\ AllSuccessful
               /\ Len(masked_vectors) = num_participants)
    /\ [](returned = "False"
            => /\ pc = "failed"
               /\ final_data_vector = NoBytes
               /\ printed \cap {"data_submission_complete",
                                "cannot_run_data_submission"} = {})
    /\ [][pc \notin {"done", "failed"}]_vars
    /\ [][(pc # "loop" /\ (masked_vectors' # masked_vectors
                            \/ final_data_vector' # final_data_vector))
            => /\ pc = "data"
               /\ pc' = "done"
               /\ returned = "True"
               /\ AllSuccessful]_vars

C11_Witness ==
    /\ pc = "done"
    /\ "data_submission_complete" \in printed
    /\ num_participants >= 2
    /\ reservation_rounds >= 3
    /\ final_data_vector # zeros(num_participants * DEFAULT_MESSAGE_LENGTH_BYTES)

\* C12 (as claimed) -- every failure of a run reaches the caller of run as
\* an outcome that differs from the outcome of a successful run and from the
\* outcome of each other failure kind: no available slot (the return of
\* line 91), round budget exhausted (the return of line 176), slot conflict.
C12_FailuresDistinguishable ==
    LET success == run_result("True")
        no_slots == run_result("False")
        exhausted == run_result("False")
    IN /\ (pc = "failed" /\ "no_available_slots" \in printed)
            => run_result(returned) \notin {success, exhausted}
       /\ (pc = "failed" /\ "failed_after_max_rounds" \in printed)
            => run_result(returned) \notin {success, no_slots}
       /\ (pc \in {"done", "failed"} /\ "critical_slot_collision" \in printed)
            => /\ pc = "failed"
               /\ run_result(returned) \notin {success, no_slots, exhausted}

\* C13 -- Boundary n = 1, any slot count m >= 1: the key store holds no
\* secret, mask_vector returns a vector equal to its input, and the
\* reservation returns True in round 1 (round counter 1) with the single
\* participant Successful.
C13_SingleParticipant ==
    num_participants = 1
        => /\ DOMAIN keys = {}
           /\ other_participant_ids(0, participant_ids(1)) = << >>
           /\ \A len \in 1..MaxVecLen : \A v \in urandom(len) :
                 mask_vector(0, other_participant_ids(0, participant_ids(1)), keys, v) = v
           /\ (pc \in {"verify", "check"}
                 => /\ masked_vectors
                         = <<create_vector(chosen_slot_index[0], pseudonym[0],
                                           num_slots, PSEUDONYM_LENGTH_BYTES)>>
                    /\ public_vector = masked_vectors[1])
           /\ (pc = "loop" => round_num = 0)
           /\ (pc # "loop"
                 => /\ round_num = 1
                    /\ reservation_rounds = 1
                    /\ pc \in {"verify", "check", "data", "done"})
           /\ (pc \in {"check", "data", "done"} => reservation_status[0] = SUCCESSFUL)
           /\ (pc \in {"data", "done"} => returned = "True")
           /\ (pc \in {"loop", "verify", "check"} => returned = "none" /\ ENABLED Next)

C13_Witness ==
    /\ num_participants = 1
    /\ num_slots >= 2
    /\ pc = "data"
    /\ returned = "True"
    /\ reservation_rounds = 1
    /\ reservation_status[0] = SUCCESSFUL
    /\ pseudonym[0] # zeros(PSEUDONYM_LENGTH_BYTES)
    /\ newly_occupied_slots_this_round = {num_slots - 1}

\* C14 -- Key store pairing: the store built over the n distinct ids of a
\* run holds exactly one secret per unordered pair of distinct ids,
\* n(n-1)/2 in all, get_key(a, b) = get_key(b, a) for all distinct registered
\* a and b, and no reservation or data round changes the stored mapping.
C14_KeyStorePairing ==
    /\ [](/\ DOMAIN keys = {t \in Ids \X Ids : t[1] < t[2]}
           /\ 2 * Cardinality(DOMAIN keys) = num_participants * (num_participants - 1)
           /\ \A a \in Ids : \A b \in Ids \ {a} :
                 /\ Cardinality({t \in DOMAIN keys : {t[1], t[2]} = {a, b}}) = 1
                 /\ get_key_error(keys, a, b) = "none"
                 /\ get_key(keys, a, b) \in urandom(QKD_KEY_LENGTH_BYTES)
                 /\ get_key(keys, a, b) = get_key(keys, b, a))
    /\ [][keys' = keys /\ qkd_participant_ids' = qkd_participant_ids]_vars

C14_Witness ==
    /\ num_participants = 3
    /\ pc = "done"
    /\ reservation_rounds >= 2
    /\ Cardinality(DOMAIN keys) = 3
    /\ get_key(keys, 1, 0) # get_key(keys, 2, 0)
    /\ get_key(keys, 2, 1) # get_key(keys, 2, 0)

\* the ids a key store was constructed over
Registered == SeqSet(qkd_participant_ids)

\* C15 -- get_key error outcomes: get_key(a, b) raises the self-pairing error
\* (ValueError) whenever a = b, registered or not; raises the unknown-pair
\* error (KeyError) whenever a # b and a or b is not registered; returns the
\* secret of the pair in every other case; a failing lookup leaves the store
\* as it was.
C15_GetKeyOutcomes ==
    /\ []((pc = "ready" /\ call[1] = "get_key")
            => LET a == call[2]
                   b == call[3]
               IN /\ a = b => outcome = <<"raise", "ValueError">>
                  /\ (a # b /\ (a \notin Registered \/ b \notin Registered))
                        => outcome = <<"raise", "KeyError">>
                  /\ (a # b /\ a \in Registered /\ b \in Registered)
                        => /\ outcome[1] = "return"
                           /\ outcome[2] \in urandom(QKD_KEY_LENGTH_BYTES)
                           /\ outcome[2] = keys[<<Min(a, b), Max(a, b)>>])
    /\ [][(pc = "ready" /\ outcome'[1] = "raise")
            => /\ keys' = keys
               /\ qkd_participant_ids' = qkd_participant_ids
               /\ pc' = "ready"]_vars

C15_Witness ==
    /\ pc = "ready"
    /\ call[1] = "get_key"
    /\ Len(qkd_participant_ids) = 3
    /\ call[2] \in Registered
    /\ call[3] \notin Registered
    /\ outcome = <<"raise", "KeyError">>

\* C16 -- Key store construction rejects bad id lists: with an empty list or
\* a list that holds an id twice the constructor raises the invalid-set error
\* (ValueError) and establishes no key; ids given twice are never dropped
\* silently.  Every other list is accepted with all its ids registered.
C16_ConstructionRejectsBadIds ==
    (pc # "construct" /\ call[1] = "QKDNetwork")
        => LET ids == call[2]
               bad == \/ ids = << >>
                      \/ \E i \in 1..Len(ids) : \E j \in 1..Len(ids) :
                            i # j /\ ids[i] = ids[j]
           IN /\ bad => /\ pc = "raised"
                        /\ outcome = <<"raise", "ValueError">>
                        /\ keys = << >>
                        /\ qkd_participant_ids = << >>
              /\ ~bad => /\ pc = "ready"
                         /\ outcome = <<"return">>
                         /\ Len(qkd_participant_ids) = Len(ids)
                         /\ Registered = SeqSet(ids)
                         /\ 2 * Cardinality(DOMAIN keys) = Len(ids) * (Len(ids) - 1)

C16_Witness ==
    /\ pc = "raised"
    /\ call[1] = "QKDNetwork"
    /\ Len(call[2]) = 3
    /\ call[2][1] = call[2][3]
    /\ call[2][1] # call[2][2]
    /\ outcome = <<"raise", "ValueError">>

\* C17 (as claimed) -- create_vector rejects oversized content: for every
\* chosen slot index, a call with content longer than the slot width fails,
\* and never returns a vector that has a non-zero byte outside the region of
\* the chosen slot.
C17_OversizedContentRejected ==
    (/\ pc = "returned"
     /\ call[1] = "create_vector"
     /\ call[2] # NoSlot
     /\ Len(call[3]) > call[5])
        => /\ outcome[1] = "raise"
           /\ outcome[1] = "return"
                 => \A k \in 1..Len(outcome[2]) :
                       (k <= call[2] * call[5] \/ k > (call[2] + 1) * call[5])
                          => outcome[2][k] = 0

\* XOR of byte k of the first `upto` vectors of a batch
RECURSIVE XorColumn(_, _, _)
XorColumn(vectors, k, upto) ==
    IF upto = 0 THEN 0
    ELSE bitwise_xor(XorColumn(vectors, k, upto - 1), vectors[upto][k])

\* C18 -- Aggregator outcomes: aggregate_vectors raises the empty-batch error
\* on an empty list and the length-mismatch error whenever two vectors of the
\* batch differ in length; for every other batch it returns the XOR of all
\* the vectors, and every permutation of the batch gives the same result.
C18_AggregatorOutcomes ==
    (pc = "returned" /\ call[1] = "aggregate_vectors")
        => LET vectors == call[2]
               n == Len(vectors)
               mismatch == \E i \in 1..n : \E j \in 1..n :
                              Len(vectors[i]) # Len(vectors[j])
           IN /\ n = 0 => outcome = <<"raise", "ValueError: empty">>
              /\ (n > 0 /\ mismatch) => outcome = <<"raise", "ValueError: shape">>
              /\ (n > 0 /\ ~mismatch)
                    => /\ outcome[1] = "return"
                       /\ Len(outcome[2]) = Len(vectors[1])
                       /\ \A k \in 1..Len(vectors[1]) :
                             outcome[2][k] = XorColumn(vectors, k, n)
                       /\ \A perm \in Permutations(1..n) :
                             /\ aggregate_vectors_error([i \in 1..n |-> vectors[perm[i]]])
                                   = "none"
                             /\ aggregate_vectors([i \in 1..n |-> vectors[perm[i]]])
                                   = outcome[2]

C18_Witness ==
    /\ pc = "returned"
    /\ call[1] = "aggregate_vectors"
    /\ Len(call[2]) = 3
    /\ Len(call[2][1]) = 2
    /\ call[2][1] # call[2][2]
    /\ call[2][2] # call[2][3]
    /\ call[2][1] # call[2][3]
    /\ outcome[1] = "return"
    /\ outcome[2] # zeros(2)

\* the reservation vector of participant i before masking: its pseudonym in
\* the region of its slot, zero bytes everywhere else
UnmaskedReservationVector(i) ==
    [k \in 1..(num_slots * PSEUDONYM_LENGTH_BYTES) |->
        IF /\ k > chosen_slot_index[i] * PSEUDONYM_LENGTH_BYTES
           /\ k <= (chosen_slot_index[i] + 1) * PSEUDONYM_LENGTH_BYTES
        THEN pseudonym[i][k - chosen_slot_index[i] * PSEUDONYM_LENGTH_BYTES]
        ELSE 0]

\* XOR of the pads participant i shares with the participants of S
RECURSIVE XorOfPads(_, _, _)
XorOfPads(i, S, len) ==
    IF S = {} THEN zeros(len)
    ELSE LET j == CHOOSE x \in S : TRUE
         IN xor_vectors(qs_prf(keys[<<Min(i, j), Max(i, j)>>], len),
                        XorOfPads(i, S \ {j}, len))

HeldBySuccessful ==
    {chosen_slot_index[j] : j \in {x \in Ids : reservation_status[x] = SUCCESSFUL}}

\* C20 -- Slot choice respects occupancy: at the start of a round
\* available_slots is exactly the set of the slot indices of 0..m-1 that no
\* Successful participant holds, and in the round every participant that is
\* not Successful submits at a slot of that set, hence never at a slot that a
\* Successful participant holds.
C20_SlotChoiceRespectsOccupancy ==
    /\ pc = "loop"
          => available_slots = {s \in 0..(num_slots - 1) : s \notin HeldBySuccessful}
    /\ pc = "verify"
          => \A i \in Ids :
                reservation_status[i] # SUCCESSFUL
                   => /\ chosen_slot_index[i] \in available_slots
                      /\ chosen_slot_index[i] \in 0..(num_slots - 1)
                      /\ chosen_slot_index[i] \notin HeldBySuccessful
                      /\ \A j \in Ids :
                            reservation_status[j] = SUCCESSFUL
                               => SlotRegion(masked_vectors[i + 1], chosen_slot_index[j],
                                             PSEUDONYM_LENGTH_BYTES)
                                    = SlotRegion(XorOfPads(i, Ids \ {i},
                                                           num_slots * PSEUDONYM_LENGTH_BYTES),
                                                 chosen_slot_index[j], PSEUDONYM_LENGTH_BYTES)

C20_Witness ==
    /\ pc = "verify"
    /\ num_participants = 3
    /\ num_slots = 3
    /\ round_num >= 2
    /\ Cardinality(HeldBySuccessful) = 1
    /\ Cardinality(available_slots) = 2
    /\ \E i \in Ids : \E j \in Ids \ {i} :
          /\ reservation_status[i] = PENDING
          /\ reservation_status[j] = PENDING
          /\ chosen_slot_index[i] # chosen_slot_index[j]

\* the number of participants with a smaller id
RankOfId(i) == Cardinality({j \in Ids : j < i})

\* C21 -- Compaction: in the step in which the reservation returns True the
\* slot indices of the n participants are reassigned to a bijection onto
\* 0..n-1 that is increasing in id (the participant with k smaller ids gets
\* index k), whatever slots were won; the slot of a Successful participant is
\* reassigned in no other step, and the reassignment is made once.
C21_Compaction ==
    /\ [][(returned = "none" /\ returned' = "True")
            => /\ pc = "check"
               /\ \A i \in Ids : chosen_slot_index'[i] = RankOfId(i)
               /\ {chosen_slot_index'[i] : i \in Ids} = 0..(num_participants - 1)]_vars
    /\ [](returned = "True" => \A i \in Ids : chosen_slot_index[i] = RankOfId(i))
    /\ [][returned # "none" => chosen_slot_index' = chosen_slot_index]_vars
    /\ [][\A i \in Ids :
            (reservation_status[i] = SUCCESSFUL
               /\ chosen_slot_index'[i] # chosen_slot_index[i])
              => (returned = "none" /\ returned' = "True")]_vars

C21_Witness ==
    /\ pc = "data"
    /\ returned = "True"
    /\ num_participants = 3
    /\ num_slots = 3
    /\ \A i \in Ids : chosen_slot_index[i] = i
    /\ pseudonym[0] # zeros(PSEUDONYM_LENGTH_BYTES)
    /\ pseudonym[2] # pseudonym[0]
    /\ SlotRegion(public_vector, 2, PSEUDONYM_LENGTH_BYTES) = pseudonym[0]
    /\ SlotRegion(public_vector, 0, PSEUDONYM_LENGTH_BYTES) # pseudonym[0]

\* C22 (as claimed) -- the end-of-round conflict test is true only on a
\* genuine conflict: whenever the slots gathered from the Successful
\* participants of the round meet the occupied set of the earlier rounds,
\* some participant that became Successful in this round holds a slot that
\* was occupied before the round; the test is never true merely because a
\* participant Successful since an earlier round still holds its slot.
C22_ConflictOnlyWhenGenuine ==
    [][(/\ pc = "verify"
        /\ pc' = "check"
        /\ newly_occupied_slots_this_round' \cap occupied_slots # {})
         => \E i \in Ids :
               /\ reservation_status[i] # SUCCESSFUL
               /\ reservation_status'[i] = SUCCESSFUL
               /\ chosen_slot_index'[i] \in occupied_slots]_vars

\* C23 -- Occupancy bookkeeping: at the end of every reservation round,
\* before compaction, occupied_slots is exactly the set of the slot indices
\* held by the participants whose status is Successful; the set only grows
\* from round to round, and it never has more than m elements.
C23_OccupancyBookkeeping ==
    /\ [](pc \in {"check", "loop"} => occupied_slots = HeldBySuccessful)
    /\ [](/\ occupied_slots \subseteq 0..(num_slots - 1)
           /\ Cardinality(occupied_slots) <= num_slots)
    /\ [][occupied_slots \subseteq occupied_slots']_vars
    /\ [][occupied_slots' # occupied_slots => (pc = "verify" /\ pc' = "check")]_vars

C23_Witness ==
    /\ pc = "check"
    /\ num_participants = 3
    /\ num_slots = 3
    /\ round_num >= 3
    /\ Cardinality(occupied_slots) = 2
    /\ occupied_slots = HeldBySuccessful
    /\ newly_occupied_slots_this_round = occupied_slots
    /\ \E i \in Ids : reservation_status[i] = COLLIDED

====
